---- MODULE Spec2Model ----
(***************************************************************************)
(* Model of the weub transcoding pipeline: upload, the BullMQ job queue,   *)
(* the consumer / TranscodingService.processVideo worker, the FFmpeg HLS   *)
(* ladder, the relational rows (videos, video_outputs, transcoding_jobs),  *)
(* the blob storage and VideosService.deleteVideo.                         *)
(***************************************************************************)
EXTENDS Integers, Sequences, FiniteSets, TLC

\* ---------------------------------------------------------------- bounds
MaxWorkers == 2
MaxRetryCalls == 1
MaxInFlight == 1
MaxReqLen == 2
MaxFaults == 1

\* ------------------------------------------------------ program constants
QueueAttempts == 3
DefaultMaxAttempts == 3
NumSegments == 2

Videos == {"v1"}
Workers == 1..MaxWorkers

NoVideo == "none"

\* VIDEO_PROCESSING_CONFIG.resolutions
LadderLabels == <<"480p", "720p", "1080p">>
ConfigWidth(res) == CASE res = "480p" -> 854 [] res = "720p" -> 1280 [] res = "1080p" -> 1920
ConfigHeight(res) == CASE res = "480p" -> 480 [] res = "720p" -> 720 [] res = "1080p" -> 1080
ConfigBitrate(res) == CASE res = "480p" -> 1200 [] res = "720p" -> 2500 [] res = "1080p" -> 5000

Range(s) == {s[n] : n \in 1..Len(s)}

\* Object.keys(VIDEO_PROCESSING_CONFIG.resolutions)
available == Range(LadderLabels)

\* labels a caller of addTranscodingJob may pass: the ladder and one unknown label
RequestLabels == available \cup {"360p"}

\* source heights ffprobe may report (videoStream.height || 0)
SourceHeights == {0, 360, 480, 720, 1080}

\* the list createTranscodingJob puts into the job data
UploadResolutions == <<"480p", "720p", "1080p">>

SeqsUpTo(S, n) == UNION {[1..m -> S] : m \in 0..n}

\* job data a direct caller of ProducerService.addTranscodingJob may pass
RequestLists == SeqsUpTo(RequestLabels, MaxReqLen) \cup {UploadResolutions, <<"1080p", "360p", "480p">>}

\* Array.prototype.filter, keeping the order of the array
RECURSIVE SelectInOrder(_, _)
SelectInOrder(s, keep) ==
  IF s = <<>> THEN <<>>
  ELSE IF Head(s) \in keep THEN <<Head(s)>> \o SelectInOrder(Tail(s), keep)
       ELSE SelectInOrder(Tail(s), keep)

\* getValidResolutions without the comparison of heights
getValidResolutions_upscaling(requestedResolutions, height) ==
  SelectInOrder(requestedResolutions, available)

\* FfmpegService.getValidResolutions
getValidResolutions(requestedResolutions, height) ==
  SelectInOrder(requestedResolutions,
                {res \in available : ConfigHeight(res) <= height})

\* Math.round for a non-negative quotient a / b
Round(a, b) == (2 * a + b) \div (2 * b)

VARIABLES
  video,     \* videos rows
  outputs,   \* video_outputs rows
  job,       \* transcoding_jobs rows
  blobs,     \* storage contents per video
  queue,     \* the BullMQ job transcode-{videoId}
  worker,    \* the workers of the transcoding queue
  del,       \* a running VideosService.deleteVideo call
  inflight,  \* progress writes issued and not yet applied by the database
  retryCalls, \* calls of retryFailedJob so far
  faults,    \* database, storage and queue errors met so far
  req        \* a call of the streaming, upload or storage interface and its answer

vars == <<video, outputs, job, blobs, queue, worker, del, inflight, retryCalls, faults, req>>

NoVideoRow == [status |-> "none", thumbnailPath |-> FALSE, processedAt |-> FALSE]
NoJobRow == [status |-> "none", progressPercentage |-> 0, attemptCount |-> 0,
             maxAttempts |-> DefaultMaxAttempts, errorMessage |-> "none"]
\* no master.m3u8
NoMaster == [version |-> 0, entries |-> <<>>, blankAfterEntry |-> FALSE]

NoBlobs == [src |-> FALSE, height |-> 0, thumb |-> FALSE, master |-> NoMaster, hasMaster |-> FALSE,
            playlist |-> {}, segments |-> [res \in available |-> 0]]
NoQueueJob == [state |-> "none", attemptsMade |-> 0, resolutions |-> <<>>]
IdleWorker == [pc |-> "idle", vid |-> NoVideo, i |-> 0, outs |-> <<>>, err |-> "none",
               tempDir |-> FALSE]
\* no call of the streaming, upload or storage interface
NoRequest ==
  [op |-> "none", pc |-> "idle", vid |-> "none", resolution |-> "none", segment |-> <<>>,
   sawStatus |-> "unread", sawRows |-> 0, dbReads |-> 0, storageReads |-> 0,
   status |-> 0, code |-> "none", body |-> "none"]

IdleDelete == [pc |-> "idle", hadThumb |-> FALSE, storageError |-> FALSE, result |-> "none"]

Init ==
  /\ video = [v \in Videos |-> NoVideoRow]
  /\ outputs = [v \in Videos |-> {}]
  /\ job = [v \in Videos |-> NoJobRow]
  /\ blobs = [v \in Videos |-> NoBlobs]
  /\ queue = [v \in Videos |-> NoQueueJob]
  /\ worker = [w \in Workers |-> IdleWorker]
  /\ del = [v \in Videos |-> IdleDelete]
  /\ inflight = {}
  /\ retryCalls = 0
  /\ faults = 0
  /\ req = NoRequest

\* a database, storage or queue call fails although its target is there
Fault == faults < MaxFaults /\ faults' = faults + 1
NoFault == UNCHANGED faults

VideoExists(v) == video[v].status \notin {"none", "deleted"}

\* ------------------------------------------------------------ the queue
\* Queue.add with a job id that is not deterministic: every call adds a job
QueueAdd_noDedup(q, resolutions) ==
  [state |-> "wait", attemptsMade |-> q.attemptsMade, resolutions |-> resolutions]

\* Queue.add with jobId transcode-{videoId}: a job id that is already in the
\* queue is not added again
QueueAdd(q, resolutions) ==
  IF q.state = "none"
  THEN [state |-> "wait", attemptsMade |-> 0, resolutions |-> resolutions]
  ELSE q

\* Job.retry(): only a job in the failed set moves back to wait
JobRetry(q) == IF q.state = "failed" THEN [q EXCEPT !.state = "wait"] ELSE q

\* the queue's handling of an attempt that threw
JobFailed(q) ==
  [q EXCEPT !.attemptsMade = q.attemptsMade + 1,
            !.state = IF q.attemptsMade + 1 < QueueAttempts THEN "wait" ELSE "failed"]

\* ---------------------------------------------------------------- upload
\* VideosService.uploadVideo with createTranscodingJob; each later step can
\* fail and leaves what the earlier steps wrote
UploadVideo(v, h) ==
  /\ video[v].status = "none"
  /\ blobs' = [blobs EXCEPT ![v].src = TRUE, ![v].height = h]
  /\ video' = [video EXCEPT ![v].status = "PENDING"]
  /\ \/ /\ Fault
        /\ UNCHANGED <<job, queue>>
     \/ /\ job' = [job EXCEPT ![v].status = "QUEUED"]
        /\ \/ /\ Fault
              /\ UNCHANGED queue
           \/ /\ NoFault
              /\ queue' = [queue EXCEPT ![v] = QueueAdd(queue[v], UploadResolutions)]
  /\ UNCHANGED <<outputs, worker, del, inflight, retryCalls, req>>

\* ProducerService.addTranscodingJob called for a video that already exists
AddTranscodingJob(v, resolutions) ==
  /\ VideoExists(v)
  /\ queue' = [queue EXCEPT ![v] = QueueAdd(queue[v], resolutions)]
  /\ UNCHANGED <<video, outputs, job, blobs, worker, del, inflight, retryCalls, faults, req>>

\* ProducerService.retryFailedJob
RetryFailedJob(v) ==
  /\ retryCalls < MaxRetryCalls
  /\ queue[v].state # "none"
  /\ queue' = [queue EXCEPT ![v] = JobRetry(queue[v])]
  /\ retryCalls' = retryCalls + 1
  /\ UNCHANGED <<video, outputs, job, blobs, worker, del, inflight, faults, req>>

\* ---------------------------------------------------------------- worker
Goto(w, pc) == worker' = [worker EXCEPT ![w].pc = pc]
Throw(w, msg) == worker' = [worker EXCEPT ![w].pc = "x_vfail", ![w].err = msg]

\* the queue hands a waiting job to an idle worker (the first one: the
\* workers are interchangeable)
Dequeue(w, v) ==
  /\ worker[w].pc = "idle"
  /\ \A u \in Workers : u < w => worker[u].pc # "idle"
  /\ queue[v].state = "wait"
  /\ queue' = [queue EXCEPT ![v].state = "active"]
  /\ worker' = [worker EXCEPT ![w] = [IdleWorker EXCEPT !.pc = "c_proc", !.vid = v]]
  /\ UNCHANGED <<video, outputs, job, blobs, del, inflight, retryCalls, faults, req>>

\* transcodingJob.updateMany({ where: { videoId }, data }): no row, no change
JobUpdateMany(v, data) ==
  job' = [job EXCEPT ![v] = IF job[v].status = "none" THEN job[v] ELSE data]

SetStatus(j, status) == [j EXCEPT !.status = status]
SetStatusProgress(j, status, progress) ==
  [j EXCEPT !.status = status, !.progressPercentage = progress]

\* ConsumerService.process: updateJobStatus(PROCESSING), errors swallowed
ConsumerProcessing(w) ==
  LET v == worker[w].vid IN
  /\ worker[w].pc = "c_proc"
  /\ \/ JobUpdateMany(v, SetStatus(job[v], "PROCESSING")) /\ NoFault
     \/ UNCHANGED job /\ Fault
  /\ Goto(w, "p_vproc")
  /\ UNCHANGED <<video, outputs, blobs, queue, del, inflight, retryCalls, req>>

\* updateVideoStatus that never writes processedAt
updateVideoStatus_noProcessedAt(row, status) == [row EXCEPT !.status = status]

\* TranscodingService.updateVideoStatus: processedAt is written only with READY
updateVideoStatus(row, status) ==
  [row EXCEPT !.status = status,
              !.processedAt = IF status = "READY" THEN TRUE ELSE @]

\* video.update({ where: { id } }) throws when the row is gone
VideoUpdate(w, data, next) ==
  LET v == worker[w].vid IN
  \/ /\ VideoExists(v)
     /\ video' = [video EXCEPT ![v] = data]
     /\ Goto(w, next)
     /\ NoFault
  \/ /\ ~VideoExists(v)
     /\ UNCHANGED video
     /\ Throw(w, "notfound")
     /\ NoFault
  \/ /\ UNCHANGED video
     /\ Throw(w, "db")
     /\ Fault

\* a transcodingJob.updateMany of processVideo; an error goes to its catch
JobWrite(w, data, next) ==
  \/ /\ JobUpdateMany(worker[w].vid, data)
     /\ Goto(w, next)
     /\ NoFault
  \/ /\ UNCHANGED job
     /\ Throw(w, "db")
     /\ Fault

\* processVideo: updateVideoStatus(videoId, PROCESSING)
MarkVideoProcessing(w) ==
  /\ worker[w].pc = "p_vproc"
  /\ VideoUpdate(w, updateVideoStatus(video[worker[w].vid], "PROCESSING"), "p_jproc")
  /\ UNCHANGED <<outputs, job, blobs, queue, del, inflight, retryCalls, req>>

\* processVideo: updateJobStatus(videoId, PROCESSING, 0)
MarkJobProcessing(w) ==
  /\ worker[w].pc = "p_jproc"
  /\ JobWrite(w, SetStatusProgress(job[worker[w].vid], "PROCESSING", 0), "p_meta")
  /\ UNCHANGED <<video, outputs, blobs, queue, del, inflight, retryCalls, req>>

\* getVideoMetadata reads the source blob
ProbeMetadata(w) ==
  LET v == worker[w].vid IN
  /\ worker[w].pc = "p_meta"
  /\ \/ blobs[v].src /\ Goto(w, "p_setmeta") /\ NoFault
     \/ ~blobs[v].src /\ Throw(w, "storage") /\ NoFault
     \/ Throw(w, "storage") /\ Fault
  /\ UNCHANGED <<video, outputs, job, blobs, queue, del, inflight, retryCalls, req>>

\* updateVideoMetadata: durationSeconds, which the model does not keep
UpdateMetadata(w) ==
  /\ worker[w].pc = "p_setmeta"
  /\ VideoUpdate(w, video[worker[w].vid], "t_mkdtemp")
  /\ UNCHANGED <<outputs, job, blobs, queue, del, inflight, retryCalls, req>>

\* what the worker's job asks for, and what the ladder leaves of it
Requested(w) == queue[worker[w].vid].resolutions
Valid(w) == getValidResolutions(Requested(w), blobs[worker[w].vid].height)
totalTasks(w) == Len(Requested(w)) + 1

\* the onProgress callback of processVideo: completedResolutions is still
\* empty while transcodeToHLS runs
taskProgress(w, percent) == Round(percent, totalTasks(w))

\* the callback is not awaited: its updateJobProgress write is in flight
IssueProgress(w, percent) ==
  /\ Cardinality(inflight) < MaxInFlight
  /\ inflight' = inflight \cup {[vid |-> worker[w].vid, percent |-> taskProgress(w, percent)]}

\* transcodeToHLS without its finally
RemoveTempDir_missing(wk) == wk

\* the finally of transcodeToHLS: fs.rm(tempDir, { recursive, force })
RemoveTempDir(wk) == [wk EXCEPT !.tempDir = FALSE]

\* an error that leaves transcodeToHLS, through its finally
ThrowFromTranscode(w, msg) ==
  worker' = [worker EXCEPT ![w] = RemoveTempDir([@ EXCEPT !.pc = "x_vfail", !.err = msg])]

\* transcodeToHLS: fs.mkdtemp, before the try
MakeTempDir(w) ==
  /\ worker[w].pc = "t_mkdtemp"
  /\ worker' = [worker EXCEPT ![w].pc = "t_fetch", ![w].tempDir = TRUE]
  /\ UNCHANGED <<video, outputs, job, blobs, queue, del, inflight, retryCalls, faults, req>>

\* transcodeToHLS: the download of the source into the temporary directory
FetchSource(w) ==
  LET v == worker[w].vid IN
  /\ worker[w].pc = "t_fetch"
  /\ \/ /\ blobs[v].src
        /\ worker' = [worker EXCEPT ![w].pc = "t_loop", ![w].i = 0, ![w].outs = <<>>]
        /\ NoFault
     \/ ~blobs[v].src /\ ThrowFromTranscode(w, "storage") /\ NoFault
     \/ ThrowFromTranscode(w, "storage") /\ Fault
  /\ UNCHANGED <<video, outputs, job, blobs, queue, del, inflight, retryCalls, req>>

\* head of the loop over validResolutions: onProgress(round(i / N * 100))
StartResolution(w) ==
  /\ worker[w].pc = "t_loop"
  /\ worker[w].i < Len(Valid(w))
  /\ IssueProgress(w, Round(100 * worker[w].i, Len(Valid(w))))
  /\ Goto(w, "t_enc")
  /\ UNCHANGED <<video, outputs, job, blobs, queue, del, retryCalls, faults, req>>

\* a progress event of FFmpeg inside transcodeResolution
InnerPercents == {50}

EncodeProgress(w, p) ==
  /\ worker[w].pc = "t_enc"
  /\ IssueProgress(w, Round(100 * worker[w].i + p, Len(Valid(w))))
  /\ UNCHANGED <<video, outputs, job, blobs, queue, worker, del, retryCalls, faults, req>>

\* transcodeResolution without the try/catch of the loop: a failure leaves
\* transcodeToHLS
EncodeResolution_throws(w) ==
  /\ worker[w].pc = "t_enc"
  /\ \/ Goto(w, "t_up") /\ NoFault
     \/ ThrowFromTranscode(w, "ffmpeg") /\ Fault
  /\ UNCHANGED <<video, outputs, job, blobs, queue, del, inflight, retryCalls, req>>

\* transcodeResolution ends or fails; a failure is logged and the loop goes on
EncodeResolution(w) ==
  /\ worker[w].pc = "t_enc"
  /\ \/ Goto(w, "t_up") /\ NoFault
     \/ /\ worker' = [worker EXCEPT ![w].pc = "t_loop", ![w].i = worker[w].i + 1]
        /\ Fault
  /\ UNCHANGED <<video, outputs, job, blobs, queue, del, inflight, retryCalls, req>>

Max(a, b) == IF a >= b THEN a ELSE b

\* uploadTranscodedResolution: the playlist, then the segments one by one; a
\* failure leaves what was saved before it and is caught by the loop
UploadResolution(w) ==
  LET v == worker[w].vid
      res == Valid(w)[worker[w].i + 1]
  IN
  /\ worker[w].pc = "t_up"
  /\ \/ /\ blobs' = [blobs EXCEPT ![v].playlist = @ \cup {res},
                                  ![v].segments[res] = NumSegments]
        /\ worker' = [worker EXCEPT ![w].pc = "t_loop", ![w].i = worker[w].i + 1,
                                    ![w].outs = Append(worker[w].outs, res)]
        /\ NoFault
     \/ /\ \/ UNCHANGED blobs
           \/ \E saved \in 0..(NumSegments - 1) :
                blobs' = [blobs EXCEPT ![v].playlist = @ \cup {res},
                                       ![v].segments[res] = Max(@, saved)]
        /\ worker' = [worker EXCEPT ![w].pc = "t_loop", ![w].i = worker[w].i + 1]
        /\ Fault
  /\ UNCHANGED <<video, outputs, job, queue, del, inflight, retryCalls, req>>

\* one variant of the master playlist
StreamInf(res) ==
  [bandwidth |-> ConfigBitrate(res) * 1000,
   resolution |-> <<ConfigWidth(res), ConfigHeight(res)>>,
   uri |-> res]

\* [...outputs].sort((a, b) => b.height - a.height), a stable sort
RECURSIVE InsertByHeight(_, _)
InsertByHeight(sorted, res) ==
  IF sorted = <<>> THEN <<res>>
  ELSE IF ConfigHeight(Head(sorted)) >= ConfigHeight(res)
       THEN <<Head(sorted)>> \o InsertByHeight(Tail(sorted), res)
       ELSE <<res>> \o sorted

\* sortedOutputs without the sort
sortedOutputs_unsorted(outs) == outs

RECURSIVE sortedOutputs(_)
sortedOutputs(outs) ==
  IF outs = <<>> THEN <<>>
  ELSE InsertByHeight(sortedOutputs(SubSeq(outs, 1, Len(outs) - 1)), outs[Len(outs)])

\* FfmpegService.createMasterPlaylist: the content it saves: the header
\* #EXTM3U, #EXT-X-VERSION:3 and an empty line, then for every output its
\* #EXT-X-STREAM-INF line, its playlist name and an empty line
masterContent(outs) ==
  [version |-> 3,
   entries |-> [n \in 1..Len(outs) |-> StreamInf(sortedOutputs(outs)[n])],
   blankAfterEntry |-> TRUE]

\* after the loop: createMasterPlaylist when there are outputs, then
\* onProgress(100); a failed save of the master playlist leaves transcodeToHLS;
\* the finally removes the temporary directory either way
FinishTranscode(w) ==
  LET v == worker[w].vid IN
  /\ worker[w].pc = "t_loop"
  /\ worker[w].i >= Len(Valid(w))
  /\ \/ /\ blobs' = IF worker[w].outs # <<>>
                    THEN [blobs EXCEPT ![v].hasMaster = TRUE,
                                       ![v].master = masterContent(worker[w].outs)]
                    ELSE blobs
        /\ IssueProgress(w, 100)
        /\ worker' = [worker EXCEPT ![w] = RemoveTempDir([@ EXCEPT !.pc = "p_check"])]
        /\ NoFault
     \/ /\ worker[w].outs # <<>>
        /\ UNCHANGED <<blobs, inflight>>
        /\ ThrowFromTranscode(w, "storage")
        /\ Fault
  /\ UNCHANGED <<video, outputs, job, queue, del, retryCalls, req>>

\* processVideo without the check for an empty outputs array
ThumbnailProgress_noEmptyCheck(w) ==
  /\ worker[w].pc = "p_check"
  /\ JobWrite(w, [job[worker[w].vid] EXCEPT !.progressPercentage =
                        Round(100 * Len(worker[w].outs), totalTasks(w))],
                    "p_thumb")
  /\ UNCHANGED <<video, outputs, blobs, queue, del, inflight, retryCalls, req>>

\* processVideo: no output is an error; otherwise the awaited progress write
\* of the thumbnail step, with completedResolutions = the outputs
ThumbnailProgress(w) ==
  /\ worker[w].pc = "p_check"
  /\ \/ /\ worker[w].outs = <<>>
        /\ UNCHANGED job
        /\ Throw(w, "All transcoding attempts failed")
        /\ NoFault
     \/ /\ worker[w].outs # <<>>
        /\ JobWrite(w, [job[worker[w].vid] EXCEPT !.progressPercentage =
                        Round(100 * Len(worker[w].outs), totalTasks(w))],
                    "p_thumb")
  /\ UNCHANGED <<video, outputs, blobs, queue, del, inflight, retryCalls, req>>

\* FfmpegService.generateThumbnail: reads the source, saves the thumbnail
GenerateThumbnail(w) ==
  LET v == worker[w].vid IN
  /\ worker[w].pc = "p_thumb"
  /\ \/ /\ blobs[v].src
        /\ blobs' = [blobs EXCEPT ![v].thumb = TRUE]
        /\ worker' = [worker EXCEPT ![w].pc = "p_save", ![w].i = 0]
        /\ NoFault
     \/ ~blobs[v].src /\ UNCHANGED blobs /\ Throw(w, "storage") /\ NoFault
     \/ UNCHANGED blobs /\ Throw(w, "storage") /\ Fault
  /\ UNCHANGED <<video, outputs, job, queue, del, inflight, retryCalls, req>>

\* the row saveOutputsToDatabase creates for an output
OutputRow(res) ==
  [resolution |-> res, width |-> ConfigWidth(res), height |-> ConfigHeight(res),
   bitrate |-> ConfigBitrate(res), segmentCount |-> NumSegments, status |-> "READY"]

HasRow(v, res) == \E o \in outputs[v] : o.resolution = res

\* saveOutputsToDatabase, one videoOutput.create per step: the foreign key and
\* the unique index (video_id, resolution) reject a row
CreateOutputRow(w) ==
  LET v == worker[w].vid
      res == worker[w].outs[worker[w].i + 1]
  IN
  /\ worker[w].pc = "p_save"
  /\ worker[w].i < Len(worker[w].outs)
  /\ \/ /\ VideoExists(v)
        /\ ~HasRow(v, res)
        /\ outputs' = [outputs EXCEPT ![v] = @ \cup {OutputRow(res)}]
        /\ worker' = [worker EXCEPT ![w].i = worker[w].i + 1]
        /\ NoFault
     \/ /\ ~VideoExists(v) \/ HasRow(v, res)
        /\ UNCHANGED outputs
        /\ Throw(w, IF VideoExists(v) THEN "unique" ELSE "notfound")
        /\ NoFault
     \/ /\ UNCHANGED outputs
        /\ Throw(w, "db")
        /\ Fault
  /\ UNCHANGED <<video, job, blobs, queue, del, inflight, retryCalls, req>>

\* saveOutputsToDatabase: video.update({ data: { thumbnailPath } })
SaveThumbnailPath(w) ==
  /\ worker[w].pc = "p_save"
  /\ worker[w].i >= Len(worker[w].outs)
  /\ VideoUpdate(w, [video[worker[w].vid] EXCEPT !.thumbnailPath = TRUE], "p_ready")
  /\ UNCHANGED <<outputs, job, blobs, queue, del, inflight, retryCalls, req>>

\* processVideo: updateVideoStatus(videoId, READY)
MarkVideoReady(w) ==
  /\ worker[w].pc = "p_ready"
  /\ VideoUpdate(w, updateVideoStatus(video[worker[w].vid], "READY"), "p_jdone")
  /\ UNCHANGED <<outputs, job, blobs, queue, del, inflight, retryCalls, req>>

\* processVideo: updateJobStatus(videoId, COMPLETED, 100)
MarkJobCompleted(w) ==
  /\ worker[w].pc = "p_jdone"
  /\ JobWrite(w, SetStatusProgress(job[worker[w].vid], "COMPLETED", 100), "p_cleanup")
  /\ UNCHANGED <<video, outputs, blobs, queue, del, inflight, retryCalls, req>>

\* cleanupOriginalFile when transcoding.cleanupOriginal is set; its errors are
\* only logged
CleanupOriginal(w) ==
  LET v == worker[w].vid IN
  /\ worker[w].pc = "p_cleanup"
  /\ \/ blobs' = [blobs EXCEPT ![v].src = FALSE]
     \/ UNCHANGED blobs
  /\ Goto(w, "c_done")
  /\ UNCHANGED <<video, outputs, job, queue, del, inflight, retryCalls, faults, req>>

\* ConsumerService.process on success: updateJobStatus(COMPLETED), errors
\* swallowed; the queue then completes the job
ConsumerCompleted(w) ==
  LET v == worker[w].vid IN
  /\ worker[w].pc = "c_done"
  /\ \/ JobUpdateMany(v, SetStatusProgress(job[v], "COMPLETED", 100)) /\ NoFault
     \/ UNCHANGED job /\ Fault
  /\ queue' = [queue EXCEPT ![v].state = "completed"]
  /\ worker' = [worker EXCEPT ![w] = IdleWorker]
  /\ UNCHANGED <<video, outputs, blobs, del, inflight, retryCalls, req>>

\* the catch of processVideo: updateVideoStatus(FAILED); when it throws, the
\* error leaves processVideo
CatchMarkVideoFailed(w) ==
  LET v == worker[w].vid IN
  /\ worker[w].pc = "x_vfail"
  /\ \/ /\ VideoExists(v)
        /\ video' = [video EXCEPT ![v] = updateVideoStatus(@, "FAILED")]
        /\ Goto(w, "x_jfail")
        /\ NoFault
     \/ /\ ~VideoExists(v)
        /\ UNCHANGED video
        /\ worker' = [worker EXCEPT ![w].pc = "c_fail", ![w].err = "notfound"]
        /\ NoFault
     \/ /\ UNCHANGED video
        /\ worker' = [worker EXCEPT ![w].pc = "c_fail", ![w].err = "db"]
        /\ Fault
  /\ UNCHANGED <<outputs, job, blobs, queue, del, inflight, retryCalls, req>>

\* the catch of processVideo: updateJobStatus(FAILED, 0, error.message), then
\* { success: false }, which process() turns into a throw
CatchMarkJobFailed(w) ==
  LET v == worker[w].vid IN
  /\ worker[w].pc = "x_jfail"
  /\ \/ /\ JobUpdateMany(v,
             [job[v] EXCEPT !.status = "FAILED", !.progressPercentage = 0,
                       !.errorMessage = worker[w].err])
        /\ Goto(w, "c_fail")
        /\ NoFault
     \/ /\ UNCHANGED job
        /\ worker' = [worker EXCEPT ![w].pc = "c_fail", ![w].err = "db"]
        /\ Fault
  /\ UNCHANGED <<video, outputs, blobs, queue, del, inflight, retryCalls, req>>

\* the catch of process(): updateJobStatus(FAILED) writes the status; a
\* database error is swallowed and skips the increment
ConsumerFailed(w) ==
  LET v == worker[w].vid IN
  /\ worker[w].pc = "c_fail"
  /\ \/ /\ JobUpdateMany(v,
             [job[v] EXCEPT !.status = "FAILED", !.errorMessage = worker[w].err])
        /\ Goto(w, "c_inc")
        /\ UNCHANGED queue
        /\ NoFault
     \/ /\ UNCHANGED job
        /\ queue' = [queue EXCEPT ![v] = JobFailed(@)]
        /\ worker' = [worker EXCEPT ![w] = IdleWorker]
        /\ Fault
  /\ UNCHANGED <<video, outputs, blobs, del, inflight, retryCalls, req>>

\* updateJobStatus(FAILED): attemptCount increment
incrementAttempt(j) == [j EXCEPT !.attemptCount = @ + 1]

\* the increment, then the re-throw that lets the queue retry or fail the job
ConsumerCountAttempt(w) ==
  LET v == worker[w].vid IN
  /\ worker[w].pc = "c_inc"
  /\ \/ JobUpdateMany(v, incrementAttempt(job[v])) /\ NoFault
     \/ UNCHANGED job /\ Fault
  /\ queue' = [queue EXCEPT ![v] = JobFailed(@)]
  /\ worker' = [worker EXCEPT ![w] = IdleWorker]
  /\ UNCHANGED <<video, outputs, blobs, del, inflight, retryCalls, req>>

\* the updateJobProgress writes a callback can issue
ProgressWrites == [vid : Videos, percent : 0..100]

\* the database applies a progress write that was in flight
ApplyProgress(wr) ==
  /\ wr \in inflight
  /\ inflight' = inflight \ {wr}
  /\ JobUpdateMany(wr.vid, [job[wr.vid] EXCEPT !.progressPercentage = wr.percent])
  /\ UNCHANGED <<video, outputs, blobs, queue, worker, del, retryCalls, faults, req>>

\* ------------------------------------------------------------ deleteVideo
\* findUnique with the paths to delete
DeleteFind(v) ==
  /\ del[v].pc = "idle"
  /\ VideoExists(v)
  /\ del' = [del EXCEPT ![v] = [IdleDelete EXCEPT !.pc = "files",
                                                    !.hadThumb = video[v].thumbnailPath]]
  /\ UNCHANGED <<video, outputs, job, blobs, queue, worker, inflight, retryCalls, faults, req>>

\* the blobs: uploadPath and thumbnailPath when the row had one; an error
\* ends the storage step and is only logged
DeleteFiles(v) ==
  /\ del[v].pc = "files"
  /\ \/ /\ blobs' = [blobs EXCEPT ![v].src = FALSE,
                                  ![v].thumb = IF del[v].hadThumb THEN FALSE ELSE @]
        /\ del' = [del EXCEPT ![v].pc = "dir"]
        /\ NoFault
     \/ /\ \/ UNCHANGED blobs
           \/ blobs' = [blobs EXCEPT ![v].src = FALSE]
        /\ del' = [del EXCEPT ![v].pc = "tx", ![v].storageError = TRUE]
        /\ Fault
  /\ UNCHANGED <<video, outputs, job, queue, worker, inflight, retryCalls, req>>

\* deleteDirectory(hls/{id})
DeleteDirectory(v) ==
  /\ del[v].pc = "dir"
  /\ \/ /\ blobs' = [blobs EXCEPT ![v].hasMaster = FALSE, ![v].master = NoMaster,
                                  ![v].playlist = {},
                                  ![v].segments = [res \in available |-> 0]]
        /\ del' = [del EXCEPT ![v].pc = "tx"]
        /\ NoFault
     \/ /\ UNCHANGED blobs
        /\ del' = [del EXCEPT ![v].pc = "tx", ![v].storageError = TRUE]
        /\ Fault
  /\ UNCHANGED <<video, outputs, job, queue, worker, inflight, retryCalls, req>>

\* a transaction that keeps what it did before it failed
DeleteTransaction_notAtomic(v) ==
  /\ del[v].pc = "tx"
  /\ \/ /\ VideoExists(v)
        /\ outputs' = [outputs EXCEPT ![v] = {}]
        /\ job' = [job EXCEPT ![v] = NoJobRow]
        /\ video' = [video EXCEPT ![v] = [NoVideoRow EXCEPT !.status = "deleted"]]
        /\ del' = [del EXCEPT ![v].pc = "idle", ![v].result = "success"]
        /\ NoFault
     \/ /\ outputs' = [outputs EXCEPT ![v] = {}]
        /\ UNCHANGED <<video, job>>
        /\ del' = [del EXCEPT ![v].pc = "idle", ![v].result = "error"]
        /\ Fault
  /\ UNCHANGED <<blobs, queue, worker, inflight, retryCalls, req>>

\* the transaction: output rows, job rows and the video row, all or nothing;
\* deleteVideo returns its success message, or throws when the transaction failed
DeleteTransaction(v) ==
  /\ del[v].pc = "tx"
  /\ \/ /\ VideoExists(v)
        /\ outputs' = [outputs EXCEPT ![v] = {}]
        /\ job' = [job EXCEPT ![v] = NoJobRow]
        /\ video' = [video EXCEPT ![v] = [NoVideoRow EXCEPT !.status = "deleted"]]
        /\ del' = [del EXCEPT ![v].pc = "idle", ![v].result = "success"]
        /\ NoFault
     \/ /\ UNCHANGED <<video, outputs, job>>
        /\ del' = [del EXCEPT ![v].pc = "idle", ![v].result = "error"]
        /\ Fault
  /\ UNCHANGED <<blobs, queue, worker, inflight, retryCalls, req>>

Next ==
  \/ \E v \in Videos, h \in SourceHeights : UploadVideo(v, h)
  \/ \E v \in Videos, resolutions \in RequestLists : AddTranscodingJob(v, resolutions)
  \/ \E v \in Videos : RetryFailedJob(v)
  \/ \E w \in Workers, v \in Videos : Dequeue(w, v)
  \/ \E w \in Workers :
       \/ ConsumerProcessing(w)
       \/ MarkVideoProcessing(w)
       \/ MarkJobProcessing(w)
       \/ ProbeMetadata(w)
       \/ UpdateMetadata(w)
       \/ MakeTempDir(w)
       \/ FetchSource(w)
       \/ StartResolution(w)
       \/ \E p \in InnerPercents : EncodeProgress(w, p)
       \/ EncodeResolution(w)
       \/ UploadResolution(w)
       \/ FinishTranscode(w)
       \/ ThumbnailProgress(w)
       \/ GenerateThumbnail(w)
       \/ CreateOutputRow(w)
       \/ SaveThumbnailPath(w)
       \/ MarkVideoReady(w)
       \/ MarkJobCompleted(w)
       \/ CleanupOriginal(w)
       \/ ConsumerCompleted(w)
       \/ CatchMarkVideoFailed(w)
       \/ CatchMarkJobFailed(w)
       \/ ConsumerFailed(w)
       \/ ConsumerCountAttempt(w)
  \/ \E wr \in ProgressWrites : ApplyProgress(wr)
  \/ \E v \in Videos :
       DeleteFind(v) \/ DeleteFiles(v) \/ DeleteDirectory(v) \/ DeleteTransaction(v)

Spec == Init /\ [][Next]_vars

\* ---------------------------------------------------------------- Streamer
\* the VideoOutput rows of a video with status READY
ReadyRows(v) == {o \in outputs[v] : o.status = "READY"}

\* findMany({ where: { videoId, status: 'READY' }, orderBy: { bitrate: 'asc' } })
RECURSIVE OrderByBitrate(_)
OrderByBitrate(rows) ==
  IF rows = {} THEN <<>>
  ELSE LET first == CHOOSE o \in rows : \A q \in rows : o.bitrate <= q.bitrate
       IN <<first>> \o OrderByBitrate(rows \ {first})

\* StreamingService.generateMasterPlaylistContent: the header #EXTM3U,
\* #EXT-X-VERSION:6 and an empty line, then for every row its
\* #EXT-X-STREAM-INF line and its playlist name
generateMasterPlaylistContent(videoOutputs) ==
  [version |-> 6,
   entries |-> [n \in 1..Len(videoOutputs) |->
                  [bandwidth |-> videoOutputs[n].bitrate * 1000,
                   resolution |-> <<videoOutputs[n].width, videoOutputs[n].height>>,
                   uri |-> videoOutputs[n].resolution]],
   blankAfterEntry |-> FALSE]

\* segment names are sequences of characters
SegmentPrefix == <<"s", "e", "g", "m", "e", "n", "t", "_">>
SegmentSuffix == <<".", "t", "s">>
Digits == {"0", "1", "2", "3", "4", "5", "6", "7", "8", "9"}

\* segment_NNN.ts
SegmentName(digits) == SegmentPrefix \o digits \o SegmentSuffix

\* names a client may put into the URL
SegmentNames ==
  {SegmentName(<<"0", "0", "0">>), SegmentName(<<"0", "0", "1">>),
   SegmentName(<<"0", "0", "7">>),
   SegmentName(<<"1">>),
   <<"S">> \o Tail(SegmentName(<<"0", "0", "1">>)),
   SegmentName(<<"0", "0", "1">>) \o <<"x">>,
   <<".", ".", "/">> \o SegmentName(<<"0", "0", "1">>),
   SegmentName(<<"0", "0", "1">>) \o <<"\n">>,
   SegmentName(<<"0", "a", "1">>),
   SegmentName(<<"0", "0", "0", "1">>)}

\* the regular expression without its anchor at the end
isValidSegmentName_unanchored(segmentName) ==
  /\ Len(segmentName) >= Len(SegmentPrefix) + 3 + Len(SegmentSuffix)
  /\ SubSeq(segmentName, 1, Len(SegmentPrefix)) = SegmentPrefix
  /\ \A n \in 1..3 : segmentName[Len(SegmentPrefix) + n] \in Digits
  /\ SubSeq(segmentName, Len(SegmentPrefix) + 4,
            Len(SegmentPrefix) + 3 + Len(SegmentSuffix)) = SegmentSuffix

\* StreamingService.isValidSegmentName: /^segment_\d{3}\.ts$/
isValidSegmentName(segmentName) ==
  /\ Len(segmentName) = Len(SegmentPrefix) + 3 + Len(SegmentSuffix)
  /\ SubSeq(segmentName, 1, Len(SegmentPrefix)) = SegmentPrefix
  /\ \A n \in 1..3 : segmentName[Len(SegmentPrefix) + n] \in Digits
  /\ SubSeq(segmentName, Len(SegmentPrefix) + 4, Len(segmentName)) = SegmentSuffix

DigitValue(c) ==
  CASE c = "0" -> 0 [] c = "1" -> 1 [] c = "2" -> 2 [] c = "3" -> 3 [] c = "4" -> 4
    [] c = "5" -> 5 [] c = "6" -> 6 [] c = "7" -> 7 [] c = "8" -> 8 [] c = "9" -> 9

\* the number in a valid segment name; FFmpeg numbers the segments from 000
SegmentIndex(segmentName) ==
  100 * DigitValue(segmentName[Len(SegmentPrefix) + 1])
  + 10 * DigitValue(segmentName[Len(SegmentPrefix) + 2])
  + DigitValue(segmentName[Len(SegmentPrefix) + 3])

\* a request that has entered its handler
NewRequest(op, v, resolution, segment) ==
  [op |-> op, pc |-> "verify", vid |-> v, resolution |-> resolution, segment |-> segment,
   sawStatus |-> "unread", sawRows |-> 0, dbReads |-> 0, storageReads |-> 0,
   status |-> 0, code |-> "none", body |-> "none"]

\* the answer of a handler
Respond(r, status, code) == [r EXCEPT !.pc = "done", !.status = status, !.code = code]

\* the catch of a handler, for an error that is not an HttpException
NotFoundCode(op) ==
  CASE op = "playlist" -> "PLAYLIST_NOT_FOUND"
    [] op = "segment" -> "SEGMENT_NOT_FOUND"
    [] op = "thumbnail" -> "THUMBNAIL_NOT_FOUND"
    [] op = "master" -> "MASTER_PLAYLIST_NOT_FOUND"

\* no request is between its handler and its response
NoStreaming == req.pc \in {"idle", "sent"}

\* StreamingController.getHLSPlaylist
GetHLSPlaylist(v, resolution) ==
  /\ NoStreaming
  /\ req' = NewRequest("playlist", v, resolution, <<>>)
  /\ UNCHANGED <<video, outputs, job, blobs, queue, worker, del, inflight, retryCalls, faults>>

\* StreamingController.getHLSSegment: the name is validated before the service is called
GetHLSSegment(v, resolution, segment) ==
  /\ NoStreaming
  /\ req' = IF isValidSegmentName(segment)
            THEN NewRequest("segment", v, resolution, segment)
            ELSE Respond(NewRequest("segment", v, resolution, segment),
                         400, "INVALID_SEGMENT_NAME")
  /\ UNCHANGED <<video, outputs, job, blobs, queue, worker, del, inflight, retryCalls, faults>>

\* StreamingController.getVideoThumbnail
GetVideoThumbnail(v) ==
  /\ NoStreaming
  /\ req' = NewRequest("thumbnail", v, "none", <<>>)
  /\ UNCHANGED <<video, outputs, job, blobs, queue, worker, del, inflight, retryCalls, faults>>

\* StreamingController.getMasterPlaylist
GetMasterPlaylist(v) ==
  /\ NoStreaming
  /\ req' = NewRequest("master", v, "none", <<>>)
  /\ UNCHANGED <<video, outputs, job, blobs, queue, worker, del, inflight, retryCalls, faults>>

\* verifyVideoReady that accepts every video that exists
verifyVideoReady_anyStatus(status) == status # "none"

\* StreamingService.verifyVideoReady: the row exists and its status is READY
verifyVideoReady(status) == status = "READY"

\* the first statement of every method of StreamingService; a database error
\* is not a VideoNotFoundException and gets the handler's own 404
VerifyVideoReady ==
  LET v == req.vid
      r == [req EXCEPT !.dbReads = @ + 1, !.sawStatus = video[v].status]
  IN
  /\ req.pc = "verify"
  /\ \/ /\ req' = IF verifyVideoReady(video[v].status)
                   THEN [r EXCEPT !.pc = IF req.op = "thumbnail" THEN "read" ELSE "rows"]
                   ELSE Respond(r, 404, "VIDEO_NOT_FOUND")
        /\ NoFault
     \/ /\ req' = Respond([req EXCEPT !.dbReads = @ + 1], 404, NotFoundCode(req.op))
        /\ Fault
  /\ UNCHANGED <<video, outputs, job, blobs, queue, worker, del, inflight, retryCalls>>

\* the READY rows a method of StreamingService finds: findFirst for a
\* resolution, findMany for the master playlist
FoundRows(op, v, resolution) ==
  IF op = "master" THEN ReadyRows(v)
  ELSE {o \in ReadyRows(v) : o.resolution = resolution}

\* getPlaylist, getSegment: videoOutput.findFirst; getMasterPlaylist:
\* videoOutput.findMany and the playlist generated from the rows
FindReadyOutput ==
  LET rows == FoundRows(req.op, req.vid, req.resolution)
      r == [req EXCEPT !.dbReads = @ + 1, !.sawRows = Cardinality(rows)]
  IN
  /\ req.pc = "rows"
  /\ \/ /\ req' = IF rows = {} THEN Respond(r, 404, "VIDEO_NOT_FOUND")
                   ELSE IF req.op = "master" THEN Respond(r, 200, "OK")
                   ELSE [r EXCEPT !.pc = "read"]
        /\ NoFault
     \/ /\ req' = Respond([req EXCEPT !.dbReads = @ + 1], 404, NotFoundCode(req.op))
        /\ Fault
  /\ UNCHANGED <<video, outputs, job, blobs, queue, worker, del, inflight, retryCalls>>

\* the blob a method of StreamingService reads is in storage
BlobExists(op, v, resolution, segment) ==
  CASE op = "playlist" -> resolution \in blobs[v].playlist
    [] op = "segment" -> /\ resolution \in available
                         /\ SegmentIndex(segment) < blobs[v].segments[resolution]
    [] op = "thumbnail" -> blobs[v].thumb

\* storageService.getFile; its error becomes the handler's own 404
ReadStorage ==
  LET r == [req EXCEPT !.storageReads = @ + 1] IN
  /\ req.pc = "read"
  /\ \/ /\ req' = IF BlobExists(req.op, req.vid, req.resolution, req.segment)
                   THEN Respond(r, 200, "OK")
                   ELSE Respond(r, 404, NotFoundCode(req.op))
        /\ NoFault
     \/ /\ req' = Respond(r, 404, NotFoundCode(req.op))
        /\ Fault
  /\ UNCHANGED <<video, outputs, job, blobs, queue, worker, del, inflight, retryCalls>>

\* AllExceptionsFilter.getErrorCodeFromStatus
getErrorCodeFromStatus(status) ==
  CASE status = 400 -> "BAD_REQUEST"
    [] status = 401 -> "UNAUTHORIZED"
    [] status = 403 -> "FORBIDDEN"
    [] status = 404 -> "NOT_FOUND"
    [] status = 409 -> "CONFLICT"
    [] status = 500 -> "INTERNAL_SERVER_ERROR"
    [] OTHER -> "UNKNOWN_ERROR"

\* AllExceptionsFilter.catch for an HttpException whose response is an object:
\* errorCode = responseObj.error || getErrorCodeFromStatus(httpStatus), and
\* BaseResponseDto.error(new ErrorDto(errorCode, message, details), httpStatus)
AllExceptionsFilter(httpStatus, responseObj) ==
  [statusCode |-> httpStatus,
   data |-> "null",
   error |-> [code |-> IF responseObj.error \in {"undefined", ""}
                       THEN getErrorCodeFromStatus(httpStatus)
                       ELSE responseObj.error,
              message |-> responseObj.message,
              details |-> responseObj.details]]

\* the response leaves the server: res.send of the handler, or the body that
\* the global exception filter makes of the exception the handler threw
SendResponse ==
  /\ req.pc = "done"
  /\ req.op \in {"playlist", "segment", "thumbnail", "master"}
  /\ req' = [req EXCEPT !.pc = "sent",
                        !.body = IF req.status = 200 THEN "bytes"
                                 ELSE AllExceptionsFilter(req.status,
                                   [code |-> req.code, message |-> "message",
                                    error |-> "undefined", details |-> "undefined"])]
  /\ UNCHANGED <<video, outputs, job, blobs, queue, worker, del, inflight, retryCalls, faults>>

\* states of one video the Streamer can meet: any status, READY rows for a
\* set of resolutions, their blobs in storage or not
StreamStatuses == {"none", "PENDING", "PROCESSING", "READY", "FAILED"}

StreamVideoRow(status) ==
  [status |-> status, thumbnailPath |-> status = "READY", processedAt |-> status = "READY"]

StreamBlobs(resolutions, stored) ==
  IF stored
  THEN [src |-> TRUE, height |-> 1080, thumb |-> TRUE,
        master |-> masterContent(SelectInOrder(LadderLabels, resolutions)),
        hasMaster |-> resolutions # {}, playlist |-> resolutions,
        segments |-> [res \in available |-> IF res \in resolutions THEN NumSegments ELSE 0]]
  ELSE NoBlobs

StreamInit ==
  /\ \E status \in StreamStatuses, resolutions \in SUBSET available, stored \in BOOLEAN :
       /\ status \in {"none", "PENDING"} => resolutions = {}
       /\ status = "none" => ~stored
       /\ status = "READY" => resolutions # {}
       /\ video = [v \in Videos |-> StreamVideoRow(status)]
       /\ outputs = [v \in Videos |-> {OutputRow(res) : res \in resolutions}]
       /\ blobs = [v \in Videos |-> StreamBlobs(resolutions, stored)]
  /\ job = [v \in Videos |-> IF video[v].status = "none" THEN NoJobRow
                              ELSE [NoJobRow EXCEPT !.status = "QUEUED"]]
  /\ queue = [v \in Videos |-> NoQueueJob]
  /\ worker = [w \in Workers |-> IdleWorker]
  /\ del = [v \in Videos |-> IdleDelete]
  /\ inflight = {}
  /\ retryCalls = 0
  /\ faults = 0
  /\ req = NoRequest

\* the streaming endpoints, and deleteVideo running beside them
StreamNext ==
  \/ \E v \in Videos, resolution \in RequestLabels : GetHLSPlaylist(v, resolution)
  \/ \E v \in Videos, resolution \in RequestLabels, segment \in SegmentNames :
       GetHLSSegment(v, resolution, segment)
  \/ \E v \in Videos : GetVideoThumbnail(v)
  \/ \E v \in Videos : GetMasterPlaylist(v)
  \/ VerifyVideoReady
  \/ FindReadyOutput
  \/ ReadStorage
  \/ SendResponse
  \/ \E v \in Videos :
       DeleteFind(v) \/ DeleteFiles(v) \/ DeleteDirectory(v) \/ DeleteTransaction(v)

StreamSpec == StreamInit /\ [][StreamNext]_vars

\* ------------------------------------------------------- upload, the paths
\* identifiers that uuidv4() and gen_random_uuid() can produce
Uuids == {"id1", "id2", "id3"}

\* originalname of the uploaded file, as a sequence of characters
Filenames ==
  {<<"a", ".", "m", "p", "4">>, <<"a", ".", "M", "P", "4">>, <<"a", ".", "M", "o", "v">>,
   <<"a", ".", "b", ".", "M", "P", "4">>, <<"a">>, <<".", "m", "p", "4">>}

\* the position of the last "." of a name, 0 if it has none
RECURSIVE LastDot(_, _)
LastDot(name, n) ==
  IF n = 0 THEN 0
  ELSE IF name[n] = "." THEN n
  ELSE LastDot(name, n - 1)

\* path.extname: from the last "." to the end; empty if there is none or
\* the name starts with its only "."
extname(filename) ==
  LET dot == LastDot(filename, Len(filename)) IN
  IF dot <= 1 THEN <<>> ELSE SubSeq(filename, dot, Len(filename))

LowerChar(c) ==
  CASE c = "M" -> "m" [] c = "P" -> "p" [] c = "O" -> "o" [] c = "V" -> "v"
    [] c = "A" -> "a" [] c = "B" -> "b"
    [] OTHER -> c

toLowerCase(str) == [n \in 1..Len(str) |-> LowerChar(str[n])]

\* FileUtils.getFileExtension
getFileExtension(filename) == toLowerCase(extname(filename))

\* IStorageService.getVideoUploadPath: uploads/raw/{videoId}{extension}
getVideoUploadPath(videoId, extension) == <<"uploads", "raw", <<videoId>> \o extension>>

NoUpload == req.pc \in {"idle", "done"}

\* VideoUploadService.uploadVideo up to the path: the identifier of the path
\* comes from uuidv4()
UploadVideoPath(filename, videoId) ==
  /\ NoUpload
  /\ req' = [op |-> "upload", pc |-> "u_save", originalname |-> filename,
             uploadPath |-> getVideoUploadPath(videoId, getFileExtension(filename)),
             saved |-> {}, row |-> <<>>, jobFor |-> <<>>, enqueued |-> <<>>,
             error |-> "none"]
  /\ UNCHANGED <<video, outputs, job, blobs, queue, worker, del, inflight, retryCalls, faults>>

\* VideoUploadService.uploadVideo: storageService.saveFile(file.buffer, uploadPath)
UploadVideoSave ==
  /\ req.pc = "u_save"
  /\ \/ /\ req' = [req EXCEPT !.pc = "u_create", !.saved = {req.uploadPath}]
        /\ NoFault
     \/ /\ req' = [req EXCEPT !.pc = "done", !.error = "Failed to save uploaded video"]
        /\ Fault
  /\ UNCHANGED <<video, outputs, job, blobs, queue, worker, del, inflight, retryCalls>>

\* VideosService.uploadVideo: prisma.video.create; the id of the row is the
\* column default gen_random_uuid()
UploadVideoCreate(id) ==
  /\ req.pc = "u_create"
  /\ \/ /\ req' = [req EXCEPT !.pc = "u_job",
                                !.row = <<[id |-> id, uploadPath |-> req.uploadPath,
                                           fileExtension |-> getFileExtension(req.originalname),
                                           status |-> "PENDING"]>>]
        /\ NoFault
     \/ /\ req' = [req EXCEPT !.pc = "done", !.error = "database"]
        /\ Fault
  /\ UNCHANGED <<video, outputs, job, blobs, queue, worker, del, inflight, retryCalls>>

\* createTranscodingJob: prisma.transcodingJob.create with status QUEUED
UploadVideoJob ==
  /\ req.pc = "u_job"
  /\ \/ /\ req' = [req EXCEPT !.pc = "u_queue",
                                !.jobFor = <<[videoId |-> req.row[1].id, status |-> "QUEUED"]>>]
        /\ NoFault
     \/ /\ req' = [req EXCEPT !.pc = "done", !.error = "database"]
        /\ Fault
  /\ UNCHANGED <<video, outputs, job, blobs, queue, worker, del, inflight, retryCalls>>

\* ProducerService.addTranscodingJob whose catch does not throw again
addTranscodingJob_noRethrow(r, added) ==
  [r EXCEPT !.pc = "done",
            !.enqueued = IF added
                         THEN <<[videoId |-> r.row[1].id, inputPath |-> r.uploadPath]>>
                         ELSE <<>>]

\* ProducerService.addTranscodingJob: transcodingQueue.add; its catch logs
\* the error and throws it again, and so do createTranscodingJob and
\* uploadVideo
addTranscodingJob(r, added) ==
  IF added
  THEN [r EXCEPT !.pc = "done",
                 !.enqueued = <<[videoId |-> r.row[1].id, inputPath |-> r.uploadPath]>>]
  ELSE [r EXCEPT !.pc = "done", !.error = "queue"]

\* createTranscodingJob: queueService.addTranscodingJob(jobData, 1)
UploadVideoEnqueue ==
  /\ req.pc = "u_queue"
  /\ \/ req' = addTranscodingJob(req, TRUE) /\ NoFault
     \/ req' = addTranscodingJob(req, FALSE) /\ Fault
  /\ UNCHANGED <<video, outputs, job, blobs, queue, worker, del, inflight, retryCalls>>

UploadNext ==
  \/ \E filename \in Filenames, videoId \in Uuids : UploadVideoPath(filename, videoId)
  \/ UploadVideoSave
  \/ \E id \in Uuids : UploadVideoCreate(id)
  \/ UploadVideoJob
  \/ UploadVideoEnqueue

UploadSpec == Init /\ [][UploadNext]_vars

\* -------------------------------------------------------- storage backends
\* a path is a sequence of names and separators
Backends == {"local", "s3"}
Platforms == {"posix", "win32"}

\* storage.path of the configuration: STORAGE_PATH or 'storage'
BasePaths == {<<"storage">>, <<"data", "/", "weub">>, <<".">>}

\* path.sep
Sep(platform) == IF platform = "win32" THEN "\\" ELSE "/"

\* the characters path.join takes as separators
Separators(platform) == IF platform = "win32" THEN {"/", "\\"} ELSE {"/"}

\* the arguments of path.join put together with a separator between them
RECURSIVE Concat(_)
Concat(parts) ==
  IF parts = <<>> THEN <<>>
  ELSE IF Len(parts) = 1 THEN Head(parts)
  ELSE Head(parts) \o <<"/">> \o Concat(Tail(parts))

RECURSIVE Interleave(_, _)
Interleave(names, sep) ==
  IF Len(names) <= 1 THEN names
  ELSE <<Head(names), sep>> \o Interleave(Tail(names), sep)

\* path.join of a platform: the parts joined and normalised, "." names
\* dropped and every separator written as the platform's own
pathJoin(platform, parts) ==
  LET str == Concat(parts)
      names == SelectInOrder(str, Range(str) \ (Separators(platform) \cup {"."}))
  IN Interleave(names, Sep(platform))

\* join of 'path' for LocalStorageService, posix.join for S3StorageService
join(backend, platform, parts) ==
  IF backend = "s3" THEN pathJoin("posix", parts) ELSE pathJoin(platform, parts)

\* the path helpers of IStorageService, for one video and one resolution
Helpers == {"getVideoUploadPath", "getHLSOutputPath", "getPlaylistPath",
            "getSegmentPath", "getThumbnailPath"}

HelperParts(helper) ==
  CASE helper = "getVideoUploadPath" -> <<<<"uploads">>, <<"raw">>, <<"id1.mp4">>>>
    [] helper = "getHLSOutputPath" -> <<<<"hls">>, <<"id1">>, <<"720p">>>>
    [] helper = "getPlaylistPath" -> <<<<"hls">>, <<"id1">>, <<"720p">>, <<"playlist.m3u8">>>>
    [] helper = "getSegmentPath" -> <<<<"hls">>, <<"id1">>, <<"720p">>, <<"segment_000.ts">>>>
    [] helper = "getThumbnailPath" -> <<<<"thumbnails">>, <<"id1">>, <<"thumbnail.jpg">>>>

PathHelper(backend, platform, helper) == join(backend, platform, HelperParts(helper))

\* LocalStorageService: join(this.baseStoragePath, path);
\* S3StorageService.getS3Key: posix.join(this.baseStoragePath, path)
getS3Key(backend, platform, baseStoragePath, path) ==
  join(backend, platform, <<baseStoragePath, path>>)

Buffers == {"b1", "b2"}

\* the files or objects of a backend: the bytes under each full path or key
StoredAt(store, key) == {f \in store : f.key = key}

NoStorageCall == req.pc \in {"idle", "done"}

\* the constructor of the configured backend
StorageConstruct(backend, platform, baseStoragePath) ==
  /\ req.pc = "idle"
  /\ req' = [op |-> "construct", pc |-> "done", backend |-> backend, platform |-> platform,
             baseStoragePath |-> baseStoragePath, store |-> {},
             path |-> <<>>, buffer |-> "none", returned |-> <<>>, error |-> "none"]
  /\ UNCHANGED <<video, outputs, job, blobs, queue, worker, del, inflight, retryCalls, faults>>

\* saveFile(buffer, path) with a path made by a helper of the same backend
\* returns path on LocalStorageService and key on S3StorageService
SaveFile(buffer, helper) ==
  LET path == PathHelper(req.backend, req.platform, helper)
      key == getS3Key(req.backend, req.platform, req.baseStoragePath, path)
  IN
  /\ req.op # "none"
  /\ NoStorageCall
  /\ \/ /\ req' = [req EXCEPT !.op = "saveFile", !.path = path, !.buffer = buffer,
                                !.store = (@ \ StoredAt(@, key))
                                          \cup {[key |-> key, bytes |-> buffer]},
                                !.returned = IF req.backend = "s3" THEN key ELSE path,
                                !.error = "none"]
        /\ NoFault
     \/ /\ req' = [req EXCEPT !.op = "saveFile", !.path = path, !.buffer = buffer,
                                !.returned = <<>>, !.error = "storage"]
        /\ Fault
  /\ UNCHANGED <<video, outputs, job, blobs, queue, worker, del, inflight, retryCalls>>

\* getFile(path): the bytes under the full path or key, or an error
GetFile(helper) ==
  LET path == PathHelper(req.backend, req.platform, helper)
      found == StoredAt(req.store, getS3Key(req.backend, req.platform, req.baseStoragePath, path))
  IN
  /\ req.op # "none"
  /\ NoStorageCall
  /\ req' = IF found = {}
            THEN [req EXCEPT !.op = "getFile", !.path = path, !.buffer = "none",
                             !.returned = <<>>, !.error = "not found"]
            ELSE [req EXCEPT !.op = "getFile", !.path = path,
                             !.buffer = (CHOOSE f \in found : TRUE).bytes,
                             !.returned = <<>>, !.error = "none"]
  /\ UNCHANGED <<video, outputs, job, blobs, queue, worker, del, inflight, retryCalls, faults>>

StorageNext ==
  \/ \E backend \in Backends, platform \in Platforms, baseStoragePath \in BasePaths :
       StorageConstruct(backend, platform, baseStoragePath)
  \/ \E buffer \in Buffers, helper \in Helpers : SaveFile(buffer, helper)
  \/ \E helper \in Helpers : GetFile(helper)

StorageSpec == Init /\ [][StorageNext]_vars

\* ------------------------------------------------- progress of an attempt
\* callbacks of one attempt that are followed
MaxCallbacks == 4


\* processVideo's onProgress: Math.round(taskProgress) goes to
\* updateJobProgress at every call; completedResolutions is still empty
OnProgress(r, percent) ==
  [r EXCEPT !.calls = Append(@, percent),
            !.writes = Append(@, [call |-> Len(r.calls) + 1,
                                  percent |-> Round(percent, r.totalTasks)])]

\* processVideo calls transcodeToHLS for a job
StartTranscode(counts) ==
  /\ req.pc \in {"idle", "done"}
  /\ req' = [op |-> "progress", pc |-> "loop", i |-> 0, valid |-> counts[2],
             totalTasks |-> counts[1] + 1, calls |-> <<>>, writes |-> <<>>]
  /\ UNCHANGED <<video, outputs, job, blobs, queue, worker, del, inflight, retryCalls, faults>>

\* head of the loop of transcodeToHLS: onProgress(Math.round(i / N * 100))
LoopProgress ==
  /\ req.pc = "loop"
  /\ Len(req.calls) < MaxCallbacks
  /\ req' = IF req.i < req.valid
            THEN [OnProgress(req, Round(100 * req.i, req.valid)) EXCEPT !.pc = "enc"]
            ELSE [req EXCEPT !.pc = "done"]
  /\ UNCHANGED <<video, outputs, job, blobs, queue, worker, del, inflight, retryCalls, faults>>

\* a progress event inside transcodeResolution: nothing if p.percent is 0,
\* else onProgress(Math.round((i + p.percent / 100) / N * 100))
FfmpegProgress(tenths) ==
  /\ req.pc = "enc"
  /\ Len(req.calls) < MaxCallbacks
  /\ req' = IF tenths = 0 THEN req
            ELSE OnProgress(req, Round(1000 * req.i + tenths, 10 * req.valid))
  /\ UNCHANGED <<video, outputs, job, blobs, queue, worker, del, inflight, retryCalls, faults>>

\* transcodeResolution ends, the loop goes to the next resolution
EndResolution ==
  /\ req.pc = "enc"
  /\ req' = [req EXCEPT !.pc = "loop", !.i = @ + 1]
  /\ UNCHANGED <<video, outputs, job, blobs, queue, worker, del, inflight, retryCalls, faults>>

ProgressNext ==
  \/ \E counts \in {<<1, 1>>, <<2, 1>>, <<2, 2>>, <<3, 2>>, <<3, 3>>} : StartTranscode(counts)
  \/ LoopProgress
  \/ \E tenths \in {0, 204, 496, 504, 1000} : FfmpegProgress(tenths)
  \/ EndResolution

ProgressSpec == Init /\ [][ProgressNext]_vars

\* ------------------------------------------------- S3 deleteDirectory
\* keys that one ListObjectsV2 answer holds at most
MaxKeysPerPage == 2

\* the characters of a name, for the names that are compared by prefix
Chars(name) ==
  CASE name = "id1" -> <<"i", "d", "1">>
    [] name = "id10" -> <<"i", "d", "1", "0">>
    [] OTHER -> <<name>>

RECURSIVE Expand(_)
Expand(str) == IF str = <<>> THEN <<>> ELSE Chars(Head(str)) \o Expand(Tail(str))

\* String.prototype.startsWith, as S3 matches Prefix
StartsWith(key, prefix) ==
  LET k == Expand(key)
      q == Expand(prefix)
  IN Len(q) <= Len(k) /\ SubSeq(k, 1, Len(q)) = q

\* the object keys a bucket can hold, in the order S3 lists them
AllKeys ==
  <<<<"storage", "/", "hls", "/", "id1", "/">>,
    <<"storage", "/", "hls", "/", "id1", "/", "720p", "/", "playlist.m3u8">>,
    <<"storage", "/", "hls", "/", "id1", "/", "720p", "/", "segment_000.ts">>,
    <<"storage", "/", "hls", "/", "id1", "/", "master.m3u8">>,
    <<"storage", "/", "hls", "/", "id10", "/", "master.m3u8">>,
    <<"storage", "/", "thumbnails", "/", "id1", "/", "thumbnail.jpg">>>>

\* deleteDirectory with the key of the path as prefix, without the "/"
DirectoryPrefix_noSlash(path) == getS3Key("s3", "posix", <<"storage">>, path)

\* deleteDirectory: prefix = this.getS3Key(path) + '/'
DirectoryPrefix(path) == getS3Key("s3", "posix", <<"storage">>, path) \o <<"/">>

\* the keys of the bucket under the prefix that come after the token
Listed(bucket, prefix, token) ==
  {n \in bucket : n > token /\ StartsWith(AllKeys[n], prefix)}

\* the n first keys of a set of keys
FirstKeys(keys, n) == {k \in keys : Cardinality({j \in keys : j < k}) < n}


\* a call of S3StorageService.deleteDirectory(path)
S3DeleteDirectory(bucket, path) ==
  /\ req.pc \in {"idle", "done"}
  /\ req' = [op |-> "deleteDirectory", pc |-> "list", bucket |-> bucket, initial |-> bucket,
             path |-> path, prefix |-> DirectoryPrefix(path), continuationToken |-> 0, contents |-> {}, next |-> 0,
             pages |-> 0, error |-> "none"]
  /\ UNCHANGED <<video, outputs, job, blobs, queue, worker, del, inflight, retryCalls, faults>>

\* ListObjectsV2Command with Prefix and ContinuationToken: a page of the
\* keys after the token, and a NextContinuationToken if keys are left; no
\* Contents ends the loop
ListObjects(n) ==
  LET keys == Listed(req.bucket, req.prefix, req.continuationToken)
      page == FirstKeys(keys, n)
  IN
  /\ req.pc = "list"
  /\ \/ /\ n = 1
        /\ keys = {}
        /\ req' = [req EXCEPT !.pc = "done"]
        /\ NoFault
     \/ /\ keys # {}
        /\ n <= Cardinality(keys)
        /\ req' = [req EXCEPT !.pc = "delete", !.contents = page, !.pages = @ + 1,
                              !.next = IF page = keys THEN 0 ELSE CHOOSE k \in page : \A j \in page : j <= k]
        /\ NoFault
     \/ /\ n = 1
        /\ req' = [req EXCEPT !.pc = "done", !.error = "storage"]
        /\ Fault
  /\ UNCHANGED <<video, outputs, job, blobs, queue, worker, del, inflight, retryCalls>>

\* DeleteObjectsCommand for the page, then
\* continuationToken = listedObjects.NextContinuationToken; while (continuationToken)
DeleteObjects ==
  /\ req.pc = "delete"
  /\ \/ /\ req' = [req EXCEPT !.bucket = @ \ req.contents, !.contents = {},
                              !.continuationToken = req.next,
                              !.pc = IF req.next = 0 THEN "done" ELSE "list"]
        /\ NoFault
     \/ /\ req' = [req EXCEPT !.pc = "done", !.error = "storage"]
        /\ Fault
  /\ UNCHANGED <<video, outputs, job, blobs, queue, worker, del, inflight, retryCalls>>

S3DeleteNext ==
  \/ \E bucket \in SUBSET (1..Len(AllKeys)), path \in {<<"hls", "/", "id1">>, <<"hls", "/", "id10">>,
                  <<"thumbnails", "/", "id1">>} :
       S3DeleteDirectory(bucket, path)
  \/ \E n \in 1..MaxKeysPerPage : ListObjects(n)
  \/ DeleteObjects

S3DeleteSpec == Init /\ [][S3DeleteNext]_vars

\* the loop of deleteDirectory goes on: every await of it returns or throws
S3DeleteFairSpec ==
  /\ S3DeleteSpec
  /\ WF_vars(\E n \in 1..MaxKeysPerPage : ListObjects(n))
  /\ WF_vars(DeleteObjects)

\* ------------------------------------------------------------ properties
Active(w) == worker[w].pc # "idle"

\* C1: every Video whose status is READY has a thumbnailPath, a processedAt
\* and at least one VideoOutput row with status READY
C1_ReadyVideoComplete ==
  \A v \in Videos :
    video[v].status = "READY" =>
      /\ video[v].thumbnailPath
      /\ video[v].processedAt
      /\ ReadyRows(v) # {}

C1_Witness == \E v \in Videos : video[v].status = "READY"

\* C2: every VideoOutput row with status READY has its playlist and all its
\* segments in storage, and its segmentCount is the number of segment blobs
\* under its directory
C2_ReadyOutputHasBlobs ==
  \A v \in Videos : \A o \in ReadyRows(v) :
    /\ o.resolution \in blobs[v].playlist
    /\ blobs[v].segments[o.resolution] = o.segmentCount

\* C3: attemptCount never exceeds maxAttempts
C3_AttemptCountBounded ==
  \A v \in Videos : job[v].attemptCount <= job[v].maxAttempts

\* the steps of processVideo between updateJobStatus(PROCESSING, 0) and
\* updateJobStatus(COMPLETED | FAILED)
AttemptPcs ==
  {"p_meta", "p_setmeta", "t_mkdtemp", "t_fetch", "t_loop", "t_enc", "t_up", "p_check",
   "p_thumb", "p_save", "p_ready", "p_jdone"}

\* C4: within a single attempt the stored progressPercentage never decreases
C4_ProgressMonotonic ==
  [][\A w \in Workers :
       LET v == worker[w].vid IN
       (/\ worker[w].pc \in AttemptPcs
        /\ worker'[w].pc \in AttemptPcs
        /\ job[v].status = "PROCESSING"
        /\ job'[v].status = "PROCESSING")
       => job'[v].progressPercentage >= job[v].progressPercentage]_vars

RECURSIVE IsSubsequence(_, _)
IsSubsequence(s, t) ==
  IF s = <<>> THEN TRUE
  ELSE IF t = <<>> THEN FALSE
  ELSE IF Head(s) = Head(t) THEN IsSubsequence(Tail(s), Tail(t))
  ELSE IsSubsequence(s, Tail(t))

InLadderNotAbove(res, height) ==
  /\ res \in {"480p", "720p", "1080p"}
  /\ ConfigHeight(res) <= height

\* C5: never upscale: the resolution being encoded, the outputs of the
\* attempt and the VideoOutput rows are ladder resolutions not higher than
\* the source, and the outputs keep the requested order
C5_NeverUpscale ==
  /\ \A w \in Workers :
       LET v == worker[w].vid IN
       Active(w) =>
         /\ worker[w].pc \in {"t_enc", "t_up"} =>
              InLadderNotAbove(Valid(w)[worker[w].i + 1], blobs[v].height)
         /\ \A n \in 1..Len(worker[w].outs) :
              InLadderNotAbove(worker[w].outs[n], blobs[v].height)
         /\ IsSubsequence(worker[w].outs, Requested(w))
  /\ \A v \in Videos : \A o \in outputs[v] :
       /\ InLadderNotAbove(o.resolution, blobs[v].height)
       /\ o.height <= blobs[v].height

\* a row exists although the request named a label outside the ladder or
\* above the source
C5_Witness ==
  \E v \in Videos :
    /\ outputs[v] # {}
    /\ \E n \in 1..Len(queue[v].resolutions) :
         ~InLadderNotAbove(queue[v].resolutions[n], blobs[v].height)

\* C6: no two workers run processVideo for the same video at the same time
C6_OneAttemptPerVideo ==
  \A w1, w2 \in Workers :
    (w1 # w2 /\ Active(w1) /\ Active(w2)) => worker[w1].vid # worker[w2].vid

\* a re-attempt is running while another worker is free
C6_Witness ==
  \E w1, w2 \in Workers :
    /\ Active(w1)
    /\ ~Active(w2)
    /\ queue[worker[w1].vid].state = "active"
    /\ queue[worker[w1].vid].attemptsMade > 0

\* C7: once READY, the status of a Video never changes (the row can only be
\* deleted)
C7_ReadyTerminal ==
  [][\A v \in Videos :
       video[v].status = "READY" => video'[v].status \in {"READY", "deleted"}]_vars

\* C8: a FAILED Video leaves FAILED only by being set to PENDING (or deleted)
C8_FailedTerminal ==
  [][\A v \in Videos :
       video[v].status = "FAILED" =>
         video'[v].status \in {"FAILED", "PENDING", "deleted"}]_vars

\* C9: thumbnailPath and processedAt are both set iff the status is READY, and
\* neither is set while the Video is PENDING, PROCESSING or FAILED
C9_FieldsIffReady ==
  \A v \in Videos :
    VideoExists(v) =>
      /\ (video[v].thumbnailPath /\ video[v].processedAt) <=> video[v].status = "READY"
      /\ video[v].status \in {"PENDING", "PROCESSING", "FAILED"} =>
           (~video[v].thumbnailPath /\ ~video[v].processedAt)

\* an attempt whose only errors so far, in the whole run, are failed
\* resolutions of its own loop: some failed, not all; it is the first attempt
\* of the job and no deleteVideo is running
PartialFailureOnly(w) ==
  LET v == worker[w].vid IN
  /\ worker[w].outs # <<>>
  /\ Len(worker[w].outs) < Len(Valid(w))
  /\ faults = Len(Valid(w)) - Len(worker[w].outs)
  /\ queue[v].attemptsMade = 0
  /\ del[v].pc = "idle"
  /\ VideoExists(v)

\* C10: partial failure: the attempt does not fail, and when processVideo has
\* succeeded the Video is READY, the job COMPLETED, the rows are those of the
\* successful resolutions and the master playlist lists exactly them
C10_PartialFailure ==
  \A w \in Workers :
    LET v == worker[w].vid IN
    (Active(w) /\ PartialFailureOnly(w)) =>
      /\ worker[w].pc \notin {"x_vfail", "x_jfail", "c_fail", "c_inc"}
      /\ worker[w].pc = "c_done" =>
           /\ video[v].status = "READY"
           /\ job[v].status = "COMPLETED"
           /\ outputs[v] = {OutputRow(worker[w].outs[n]) : n \in 1..Len(worker[w].outs)}
           /\ blobs[v].hasMaster
           /\ blobs[v].master.entries = [n \in 1..Len(worker[w].outs) |->
                                           StreamInf(sortedOutputs(worker[w].outs)[n])]
           /\ Len(blobs[v].master.entries) = Len(worker[w].outs)

C10_Witness ==
  \E w \in Workers : worker[w].pc = "c_done" /\ PartialFailureOnly(w)

\* the attempt of worker w has met no error other than failed resolutions of
\* its own loop, all of them failed (or none was valid); it is the first
\* attempt of the job and no deleteVideo has touched the video
AllRenditionsFailedOnly(w) ==
  LET v == worker[w].vid IN
  /\ Active(w)
  /\ worker[w].err = "All transcoding attempts failed"
  /\ faults = Len(Valid(w))
  /\ queue[v].attemptsMade = 0
  /\ del[v].pc = "idle"
  /\ VideoExists(v)

\* the job of video v can never produce an output: no requested resolution
\* survives getValidResolutions
NoValidResolution(v) ==
  /\ queue[v].state # "none"
  /\ getValidResolutions(queue[v].resolutions, blobs[v].height) = <<>>

\* C11: all renditions failed: the attempt fails, no VideoOutput row and no
\* master playlist is written, the Video and the job become FAILED with a
\* non-empty errorMessage, and the Video is still FAILED once the queue has
\* exhausted its retries
C11_AllRenditionsFailed ==
  /\ \A w \in Workers :
       LET v == worker[w].vid IN
       AllRenditionsFailedOnly(w) =>
         /\ worker[w].pc \in {"x_vfail", "x_jfail", "c_fail", "c_inc"}
         /\ outputs[v] = {}
         /\ ~blobs[v].hasMaster
         /\ worker[w].pc \in {"x_jfail", "c_fail", "c_inc"} => video[v].status = "FAILED"
         /\ worker[w].pc \in {"c_fail", "c_inc"} =>
              /\ job[v].status = "FAILED"
              /\ job[v].errorMessage = "All transcoding attempts failed"
  /\ \A v \in Videos :
       NoValidResolution(v) =>
         /\ outputs[v] = {}
         /\ ~blobs[v].hasMaster
         /\ \A w \in Workers :
              (Active(w) /\ worker[w].vid = v) =>
                worker[w].pc \notin {"t_enc", "t_up", "p_thumb", "p_save", "p_ready",
                                     "p_jdone", "p_cleanup", "c_done"}
         /\ (queue[v].state = "failed" /\ faults = 0 /\ del[v].pc = "idle" /\ VideoExists(v)) =>
              /\ video[v].status = "FAILED"
              /\ job[v].status = "FAILED"
              /\ job[v].errorMessage # "none"
              /\ job[v].attemptCount >= QueueAttempts

\* the retries are exhausted for a 360p source, which no ladder resolution fits
C11_Witness ==
  \E v \in Videos :
    /\ NoValidResolution(v)
    /\ queue[v].state = "failed"
    /\ faults = 0
    /\ video[v].status = "FAILED"
    /\ blobs[v].height = 360

\* the job of video v failed its first attempt with a storage error, which is
\* the only error of the run, and its second attempt has ended with success;
\* no progress write is in flight and no deleteVideo has touched the video
RetryThenSucceed(v) ==
  /\ queue[v].state = "completed"
  /\ queue[v].attemptsMade = 1
  /\ job[v].errorMessage = "storage"
  /\ faults = 1
  /\ inflight = {}
  /\ del[v].pc = "idle"
  /\ VideoExists(v)

\* C12: retry then succeed: after a first attempt that failed with a transient
\* storage error and a second attempt that succeeded, attemptCount is 2, the
\* job is COMPLETED with progress 100 and the Video is READY
C12_RetryThenSucceed ==
  \A v \in Videos :
    RetryThenSucceed(v) =>
      /\ job[v].attemptCount = 2
      /\ job[v].status = "COMPLETED"
      /\ job[v].progressPercentage = 100
      /\ video[v].status = "READY"

\* C15: delete cascade: the transaction of deleteVideo removes the Video row,
\* its VideoOutput rows and its TranscodingJob rows together or changes none
\* of them; an error while deleting blobs does not end the call, and the call
\* returns success when the transaction went through
C15_DeleteCascade ==
  [][\A v \in Videos :
       /\ (del[v].pc = "tx" /\ del'[v].pc = "idle") =>
            \/ /\ video'[v].status = "deleted"
               /\ outputs'[v] = {}
               /\ job'[v] = NoJobRow
               /\ del'[v].result = "success"
            \/ /\ video'[v] = video[v]
               /\ outputs'[v] = outputs[v]
               /\ job'[v] = job[v]
               /\ del'[v].result = "error"
               /\ faults' # faults
       /\ (del[v].pc \in {"files", "dir"} /\ del'[v] # del[v]) =>
            /\ del'[v].pc \in {"dir", "tx"}
            /\ <<video'[v], outputs'[v], job'[v]>> = <<video[v], outputs[v], job[v]>>
       /\ (del[v].pc = "tx" /\ del[v].storageError /\ del'[v].pc = "idle" /\ faults' = faults) =>
            del'[v].result = "success"]_vars

\* a deleteVideo whose blob deletion failed has removed the rows of a
\* transcoded video and returned success
C15_Witness ==
  \E v \in Videos :
    /\ video[v].status = "deleted"
    /\ del[v].result = "success"
    /\ del[v].storageError
    /\ blobs[v].hasMaster

DescendingHeights(entries) ==
  \A n \in 1..(Len(entries) - 1) :
    entries[n].resolution[2] >= entries[n + 1].resolution[2]

\* C17: when transcodeToHLS ends with at least one output it has written a
\* master playlist with exactly one STREAM-INF entry per output, ordered by
\* descending height, each with BANDWIDTH = bitrate * 1000, RESOLUTION =
\* width x height and the URI of the playlist of its resolution; with no
\* output it writes no master playlist
C17_MasterPlaylist ==
  [][\A w \in Workers :
       LET v == worker[w].vid
           outs == worker[w].outs
           m == blobs'[v].master.entries
       IN
       (worker[w].pc = "t_loop" /\ worker'[w].pc = "p_check") =>
         IF outs = <<>>
         THEN blobs'[v] = blobs[v]
         ELSE /\ blobs'[v].hasMaster
              /\ Len(m) = Len(outs)
              /\ {m[n].uri : n \in 1..Len(m)} = Range(outs)
              /\ DescendingHeights(m)
              /\ \A n \in 1..Len(m) :
                   /\ m[n].bandwidth = ConfigBitrate(m[n].uri) * 1000
                   /\ m[n].resolution = <<ConfigWidth(m[n].uri), ConfigHeight(m[n].uri)>>]_vars

\* the master playlist of three outputs that were produced in ascending order
C17_Witness ==
  \E w \in Workers :
    /\ worker[w].pc = "p_check"
    /\ worker[w].outs = <<"480p", "720p", "1080p">>
    /\ blobs[worker[w].vid].hasMaster
    /\ Len(blobs[worker[w].vid].master.entries) = 3

\* C18: for every READY video the master playlist that getMasterPlaylist
\* regenerates from the READY VideoOutput rows equals the master.m3u8 that
\* the Transcoder stored
C18_MasterEquivalent ==
  \A v \in Videos :
    (video[v].status = "READY" /\ blobs[v].hasMaster) =>
      generateMasterPlaylistContent(OrderByBitrate(ReadyRows(v))) = blobs[v].master

\* the readiness gate of a request was passed: the video was READY when
\* verifyVideoReady read it and, except for the thumbnail, a READY row was found
GatePassed(r) ==
  /\ r.sawStatus = "READY"
  /\ r.op # "thumbnail" => r.sawRows >= 1

\* C13: getPlaylist, getSegment, getThumbnail and getMasterPlaylist return
\* bytes only if the video was READY when they checked and (but for the
\* thumbnail) a READY VideoOutput row was found; every call of the service
\* that ends without passing this gate ends with a not-found error (404),
\* VIDEO_NOT_FOUND when the check was made and found otherwise, and storage
\* is never read before the gate is passed
C13_ReadinessGate ==
  /\ req.status = 200 => GatePassed(req)
  /\ req.storageReads > 0 => GatePassed(req)
  /\ (req.pc = "done" /\ req.dbReads > 0 /\ ~GatePassed(req)) =>
       /\ req.status = 404
       /\ req.code \in {"VIDEO_NOT_FOUND", NotFoundCode(req.op)}
       /\ req.storageReads = 0
  /\ (req.pc = "done" /\ req.sawStatus \notin {"unread", "READY"}) =>
       req.code = "VIDEO_NOT_FOUND"

C13_Witness ==
  /\ req.pc = "done"
  /\ req.op = "segment"
  /\ req.status = 200
  /\ req.storageReads = 1

\* the names made of segment_, three decimal digits and .ts
ThreeDigitNames == {SegmentName(<<a, b, c>>) : a \in Digits, b \in Digits, c \in Digits}

C19_UploadPathUsesVideoId ==
  (req.op = "upload" /\ req.row # <<>>) =>
    req.row[1].uploadPath =
      getVideoUploadPath(req.row[1].id, toLowerCase(extname(req.originalname)))

\* C20: on both storage backends saveFile(bytes, path) returns exactly the
\* path it was given, a getFile(path) that follows returns the bytes saved
\* there, and every path helper returns the same string on both backends
C20_StorageBackendsAgree ==
  /\ (req.op = "saveFile" /\ req.error = "none") => req.returned = req.path
  /\ (req.op = "getFile" /\ req.error = "none") =>
       [key |-> getS3Key(req.backend, req.platform, req.baseStoragePath, req.path),
        bytes |-> req.buffer] \in req.store
  /\ req.op \in {"construct", "saveFile", "getFile"} =>
       \A helper \in Helpers :
         PathHelper("local", req.platform, helper) = PathHelper("s3", req.platform, helper)

\* C21: every error response is the envelope {statusCode, data: null,
\* error: {code, message, details}} whose error.code is the code of the error
\* that was raised; a request for a video that does not exist or is not READY
\* is answered with status 404 and error.code VIDEO_NOT_FOUND
C21_ErrorEnvelope ==
  (req.pc = "sent" /\ req.status # 200) =>
    /\ req.body.statusCode = req.status
    /\ req.body.data = "null"
    /\ req.body.error.code = req.code
    /\ req.sawStatus \notin {"unread", "READY"} =>
         (req.body.statusCode = 404 /\ req.body.error.code = "VIDEO_NOT_FOUND")

\* C22: the stored status of a TranscodingJob changes only along
\* QUEUED -> PROCESSING, PROCESSING -> COMPLETED, PROCESSING -> RETRYING,
\* RETRYING -> QUEUED and PROCESSING -> FAILED; COMPLETED and FAILED are never
\* left, and a failed attempt that the queue re-attempts is not recorded as FAILED
C22_JobLifecycle ==
  [][\A v \in Videos :
       (/\ job[v].status # "none"
        /\ job'[v].status # "none"
        /\ job'[v].status # job[v].status)
       => <<job[v].status, job'[v].status>> \in
            {<<"QUEUED", "PROCESSING">>, <<"PROCESSING", "COMPLETED">>,
             <<"PROCESSING", "RETRYING">>, <<"RETRYING", "QUEUED">>,
             <<"PROCESSING", "FAILED">>}]_vars

\* C23: consecutive progress callbacks that carry the same rounded percent
\* cause at most one updateJobProgress write
C23_ProgressThrottled ==
  req.op = "progress" =>
    \A k \in 1..(Len(req.calls) - 1) :
      req.calls[k] = req.calls[k + 1] =>
        Cardinality({n \in 1..Len(req.writes) : req.writes[n].call \in {k, k + 1}}) <= 1

\* C24: when enqueueing fails during upload, the upload call fails, the
\* TranscodingJob row that was already created is still QUEUED and the Video
\* row still PENDING; no row is set FAILED or removed
C24_QueueUnavailable ==
  (req.op = "upload" /\ req.pc = "done" /\ req.jobFor # <<>> /\ req.enqueued = <<>>) =>
    /\ req.error = "queue"
    /\ Len(req.row) = 1
    /\ req.row[1].status = "PENDING"
    /\ Len(req.jobFor) = 1
    /\ req.jobFor[1].status = "QUEUED"
    /\ req.jobFor[1].videoId = req.row[1].id

C24_Witness ==
  /\ req.op = "upload"
  /\ req.pc = "done"
  /\ req.error = "queue"
  /\ req.jobFor # <<>>
  /\ req.enqueued = <<>>

\* C25: the Video row and its TranscodingJob row are created atomically: also
\* after an upload that failed part-way, a Video row exists only together
\* with a TranscodingJob row for it
C25_VideoAndJobAtomic ==
  (req.op = "upload" /\ req.pc = "done" /\ req.row # <<>>) =>
    /\ req.jobFor # <<>>
    /\ req.jobFor[1].videoId = req.row[1].id

\* C30: when uploadVideo fails after the source blob was saved, the blob is
\* not left behind: once the call has ended, every blob under uploads/raw/
\* is the uploadPath of a Video row
C30_NoOrphanBlob ==
  (req.op = "upload" /\ req.pc = "done") =>
    \A path \in req.saved : req.row # <<>> /\ req.row[1].uploadPath = path

\* the key is in the directory: it starts with the key of the path and "/"
UnderDirectory(key, path) ==
  StartsWith(key, getS3Key("s3", "posix", <<"storage">>, path) \o <<"/">>)

C27_CompletedProgress ==
  \A v \in Videos : job[v].status = "COMPLETED" => job[v].progressPercentage = 100

\* C28: a re-attempt succeeds after a failed attempt, whichever step of the
\* earlier attempt failed: with no more than MaxFaults failing calls and more
\* attempts than that, the job ends with Video READY and job COMPLETED.
\* The case: the attempts of the job are over, at least one of them failed,
\* the rows and the source are there, deleteVideo never ran and a resolution
\* is valid
C28_RetrySucceeds ==
  \A v \in Videos :
    ( /\ queue[v].state \in {"completed", "failed"}
      /\ queue[v].attemptsMade >= 1
      /\ VideoExists(v)
      /\ job[v].status # "none"
      /\ blobs[v].src
      /\ del[v] = IdleDelete
      /\ ~NoValidResolution(v)
      /\ \A w \in Workers : Active(w) => worker[w].vid # v ) =>
      /\ queue[v].state = "completed"
      /\ video[v].status = "READY"
      /\ job[v].status = "COMPLETED"

\* C29: when deleteVideo ran beside a worker that was processing the video,
\* then once both have finished, and no storage or database call failed, no
\* VideoOutput row and no blob under hls/{videoId}/ or thumbnails/{videoId}/
\* is left
C29_DeleteWhileProcessing ==
  \A v \in Videos :
    ( /\ video[v].status = "deleted"
      /\ del[v].pc = "idle"
      /\ queue[v].state \notin {"wait", "active"}
      /\ \A w \in Workers : Active(w) => worker[w].vid # v
      /\ faults = 0 ) =>
      /\ outputs[v] = {}
      /\ blobs[v].playlist = {}
      /\ \A res \in available : blobs[v].segments[res] = 0
      /\ ~blobs[v].hasMaster
      /\ ~blobs[v].thumb

====
